---- MODULE Spec2Model ----
(***************************************************************************)
(* Model of memory-search.py (MemorySearcher): the metadata extraction,    *)
(* the rebuild of the FTS index inside one sqlite3 transaction, search,    *)
(* timeline and get_content.                                               *)
(*                                                                         *)
(* Text is a sequence of one-character strings, a path is a sequence of    *)
(* components below the memory directory, the index table is a bag of rows.*)
(***************************************************************************)
EXTENDS Bags, FiniteSets, Integers, Sequences, TLC

(***************************************************************************)
(* Characters                                                              *)
(***************************************************************************)
Digits == {"0", "1", "2", "3", "4", "5", "6", "7", "8", "9"}

Letters == {"a", "b", "c", "d", "e", "f", "g", "h", "i", "j", "k", "l", "m",
            "n", "o", "p", "q", "r", "s", "t", "u", "v", "w", "x", "y", "z"}

\* the characters of the model that the ascii codec cannot decode
NonAscii == {"é"}

\* \w of the re module (a str pattern: Unicode letters match), on the
\* characters the model uses
WordChars == Digits \cup Letters \cup {"_"} \cup NonAscii

\* the characters str.strip() removes
Whitespace == {" ", "\n", "\t"}

\* the characters of the model in code point order
CodePoints == <<"\t", "\n", " ", "#", "-", ".", "/",
                "0", "1", "2", "3", "4", "5", "6", "7", "8", "9", "_",
                "a", "b", "c", "d", "e", "f", "g", "h", "i", "j", "k", "l", "m",
                "n", "o", "p", "q", "r", "s", "t", "u", "v", "w", "x", "y", "z", "é">>

\* rank of a character in code point order (order-isomorphic to ord())
Ord(c) == CHOOSE i \in 1..Len(CodePoints) : CodePoints[i] = c

(***************************************************************************)
(* Strings                                                                 *)
(***************************************************************************)
Min(S) == CHOOSE x \in S : \A y \in S : x <= y

\* s[:n]
Take(s, n) == SubSeq(s, 1, IF Len(s) < n THEN Len(s) ELSE n)

\* s[i:] with i counted from 1
Drop(s, i) == SubSeq(s, i, Len(s))

\* str.startswith for a one-character prefix
StartsWith(s, c) == Len(s) > 0 /\ s[1] = c

\* str.strip()
Strip(s) ==
  LET keep == {i \in 1..Len(s) : s[i] \notin Whitespace}
  IN  IF keep = {} THEN <<>>
      ELSE SubSeq(s, Min(keep), CHOOSE j \in keep : \A k \in keep : k <= j)

\* str.split(c) for a one-character separator: empty fields are kept
RECURSIVE SplitOn(_, _)
SplitOn(s, c) ==
  LET at == {i \in 1..Len(s) : s[i] = c}
  IN  IF at = {} THEN <<s>>
      ELSE <<SubSeq(s, 1, Min(at) - 1)>> \o SplitOn(Drop(s, Min(at) + 1), c)

\* c.join(parts)
RECURSIVE Join(_, _)
Join(parts, c) ==
  IF parts = <<>> THEN <<>>
  ELSE IF Len(parts) = 1 THEN parts[1]
  ELSE parts[1] \o <<c>> \o Join(Tail(parts), c)

\* a < b for str: by code point, a proper prefix first
RECURSIVE StrLess(_, _)
StrLess(a, b) ==
  IF b = <<>> THEN FALSE
  ELSE IF a = <<>> THEN TRUE
  ELSE IF a[1] # b[1] THEN Ord(a[1]) < Ord(b[1])
  ELSE StrLess(Tail(a), Tail(b))

(***************************************************************************)
(* Metadata extraction (index_memory_files, lines 60-65)                   *)
(***************************************************************************)
Unknown == <<"u", "n", "k", "n", "o", "w", "n">>

\* \d{4}-\d{2}-\d{2} matches s at position i
DateAt(s, i) ==
  /\ i + 9 <= Len(s)
  /\ \A k \in 0..9 : IF k \in {4, 7} THEN s[i + k] = "-" ELSE s[i + k] \in Digits

\* re.search(r'(\d{4}-\d{2}-\d{2})', name) is not None
HasDate(name) == \E i \in 1..Len(name) : DateAt(name, i)

\* date_match.group(1) if date_match else "unknown": the leftmost match
ExtractDate(name) ==
  IF HasDate(name)
  THEN LET i == Min({j \in 1..Len(name) : DateAt(name, j)}) IN SubSeq(name, i, i + 9)
  ELSE Unknown

\* end of the greedy \w+ that starts at j
WordEnd(s, j) ==
  CHOOSE k \in j..Len(s) :
    /\ \A m \in j..k : s[m] \in WordChars
    /\ (k = Len(s) \/ s[k + 1] \notin WordChars)

\* re.findall(r'#\w+', s) scanning from position i: every match, in order
RECURSIVE FindTagsFrom(_, _)
FindTagsFrom(s, i) ==
  IF i > Len(s) THEN <<>>
  ELSE IF s[i] = "#" /\ i + 1 <= Len(s) /\ s[i + 1] \in WordChars
       THEN <<SubSeq(s, i, WordEnd(s, i + 1))>> \o FindTagsFrom(s, WordEnd(s, i + 1) + 1)
       ELSE FindTagsFrom(s, i + 1)

FindTags(s) == FindTagsFrom(s, 1)

\* tags = " ".join(re.findall(r'#\w+', content))
ExtractTags(content) == Join(FindTags(content), " ")

SummaryLen == 200

\* first stripped line that is non-empty and does not start with '#',
\* else content[:200]; then [:200]
ExtractSummary(content) ==
  LET lines == SplitOn(Strip(content), "\n")
      ok    == {i \in 1..Len(lines) :
                  Strip(lines[i]) # <<>> /\ ~StartsWith(lines[i], "#")}
      first == IF ok = {} THEN Take(content, SummaryLen) ELSE Strip(lines[Min(ok)])
  IN  Take(first, SummaryLen)

(***************************************************************************)
(* The document tree                                                       *)
(***************************************************************************)
\* str(self.memory_dir)
Root == <<"m">>

NameFeb == <<"2", "0", "2", "6", "-", "0", "2", "-", "0", "1", ".", "m", "d">>

NameJan == <<"2", "0", "2", "6", "-", "0", "1", "-", "0", "1", ".", "m", "d">>

NameNotes == <<"n", ".", "m", "d">>

NameHidden == <<".", "h", ".", "m", "d">>

NameTxt == <<"a", ".", "t", "x", "t">>

\* the paths a file can be at, as components below the memory directory
Paths == { <<NameFeb>>, <<<<"s">>, NameJan>>, <<NameNotes>>, <<NameHidden>>, <<NameTxt>> }

\* the memory directory, and its one subdirectory
Top == <<>>

Sub == <<<<"s">>>>

\* what the subdirectory can be: missing, or a directory the process can
\* list and enter (r-x), only list (r--), only enter (--x), or neither
Modes == {"open", "read", "search", "closed", "absent"}

\* "# t\nhi #x #x": a heading, then a line that names one tag twice
TextTwice == <<"#", " ", "t", "\n", "h", "i", " ", "#", "x", " ", "#", "x">>

\* "#y é\n# h": every line starts with '#'; one character is not ASCII
TextHeads == <<"#", "y", " ", "é", "\n", "#", " ", "h">>

\* what a file can hold; a file that is being written is seen empty first
Contents == {<<>>, TextTwice, TextHeads}

Absent == [exists |-> FALSE, readable |-> FALSE, content |-> <<>>]

\* a file open() or read() raises on (no read permission, or bytes that are
\* not UTF-8)
Unreadable == [exists |-> TRUE, readable |-> FALSE, content |-> <<>>]

File(c) == [exists |-> TRUE, readable |-> TRUE, content |-> c]

\* md_file.name
Name(f) == f[Len(f)]

\* md_file.parent, below the memory directory
Parent(f) == SubSeq(f, 1, Len(f) - 1)

\* str(md_file)
PathStr(f) == Join(<<Root>> \o f, "/")

\* the name matches *.md
IsMd(name) == Len(name) >= 3 /\ SubSeq(name, Len(name) - 2, Len(name)) = <<".", "m", "d">>

\* what glob yields for one directory: the *.md entries of one scandir of d
Listing(t, d) == {f \in DOMAIN t : t[f].exists /\ IsMd(Name(f)) /\ Parent(f) = d}

\* md_file.name.startswith('.')
Hidden(f) == StartsWith(Name(f), ".")

\* the row INSERT INTO memory_fts VALUES (?,?,?,?,?) adds
Row(f, content) ==
  [file_path    |-> PathStr(f),
   content      |-> content,
   date_created |-> ExtractDate(Name(f)),
   tags         |-> ExtractTags(content),
   summary      |-> ExtractSummary(content)]

(***************************************************************************)
(* State                                                                   *)
(***************************************************************************)
\* the processes that run index or search
Procs == {"p1", "p2"}

\* the process that runs timeline or get
Caller == "q"

NoProc == "none"

\* tree edits in one behaviour
MaxEdits == 2

VARIABLES
  tree,     \* path -> file: the files under the memory directory
  sub,      \* the subdirectory s: one of Modes
  edits,    \* number of tree edits so far
  db,       \* committed rows of memory_fts in search_index.db, a bag
  writer,   \* the process holding the database's write lock, or NoProc
  pc,       \* process -> where it is
  txn,      \* process -> the rows its transaction holds
  todo,     \* process -> entries of the listed directory not visited yet
  scan,     \* process -> the next scandir of the glob (1..4), 5: exhausted
  indexed,  \* process -> the local indexed
  warned,   \* process -> number of "Warning:" lines printed
  before,   \* process -> the rows committed when its rebuild started
  asked,    \* process -> the query of its search
  seen,     \* process -> the rows its SELECT returns
  mid,      \* process -> the rebuilds under way when its SELECT ran: each
            \* process in one, with the rows committed when it started
  builds,   \* committed rebuilds that began after the last change of the
            \* tree, counted up to two
  changed,  \* process -> the tree changed since its running call began
  out       \* the running call of timeline or get_content, or its value

vars == <<tree, sub, edits, db, writer, pc, txn, todo, scan, indexed, warned, before,
          asked, seen, mid, builds, changed, out>>

NoOut == [op |-> "none"]

\* no rebuild under way
NoRebuild == [w \in {} |-> EmptyBag]

\* __init__ on a memory directory that holds only the empty subdirectory s:
\* the table exists and has no rows
Init ==
  /\ tree = [f \in Paths |-> Absent]
  /\ sub = "open"
  /\ edits = 0
  /\ db = EmptyBag
  /\ writer = NoProc
  /\ pc = [p \in Procs |-> "idle"]
  /\ txn = [p \in Procs |-> EmptyBag]
  /\ todo = [p \in Procs |-> {}]
  /\ scan = [p \in Procs |-> 1]
  /\ indexed = [p \in Procs |-> 0]
  /\ warned = [p \in Procs |-> 0]
  /\ before = [p \in Procs |-> EmptyBag]
  /\ asked = [p \in Procs |-> <<>>]
  /\ seen = [p \in Procs |-> EmptyBag]
  /\ mid = [p \in Procs |-> NoRebuild]
  /\ builds = 0
  /\ changed = [x \in Procs \cup {Caller} |-> FALSE]
  /\ out = NoOut

\* how the process finds the directory d
ModeOf(d) == IF d = Top THEN "open" ELSE sub

\* scandir(d) returns the entries of d (it has the read bit)
CanList(d) == ModeOf(d) \in {"open", "read"}

\* a path through d resolves (it has the search bit)
CanEnter(d) == ModeOf(d) \in {"open", "search"}

(***************************************************************************)
(* The files and the subdirectory change at any moment: other programs     *)
(* (without privilege) write, remove and protect them while index, search, *)
(* timeline or get run.                                                    *)
(***************************************************************************)
\* another program can make f this file: its directory lets it in
CanEdit(f, file) == edits < MaxEdits /\ tree[f] # file /\ CanEnter(Parent(f))

\* a call is running for x
Running(x) == IF x = Caller THEN out # NoOut ELSE pc[x] # "idle"

\* every running call has seen the tree change
Touched == [x \in Procs \cup {Caller} |-> changed[x] \/ Running(x)]

\* the file gets the content c (c empty: the file was just created or
\* truncated)
WriteFile(f, c) ==
  /\ CanEdit(f, File(c))
  /\ tree' = [tree EXCEPT ![f] = File(c)]
  /\ edits' = edits + 1
  /\ builds' = 0
  /\ changed' = Touched
  /\ UNCHANGED <<sub, db, writer, pc, txn, todo, scan, indexed, warned, before, asked,
                 seen, mid, out>>

\* the file is deleted
RemoveFile(f) ==
  /\ CanEdit(f, Absent)
  /\ tree' = [tree EXCEPT ![f] = Absent]
  /\ edits' = edits + 1
  /\ builds' = 0
  /\ changed' = Touched
  /\ UNCHANGED <<sub, db, writer, pc, txn, todo, scan, indexed, warned, before, asked,
                 seen, mid, out>>

\* the file loses its read permission
DamageFile(f) ==
  /\ CanEdit(f, Unreadable)
  /\ tree' = [tree EXCEPT ![f] = Unreadable]
  /\ edits' = edits + 1
  /\ builds' = 0
  /\ changed' = Touched
  /\ UNCHANGED <<sub, db, writer, pc, txn, todo, scan, indexed, warned, before, asked,
                 seen, mid, out>>

\* the subdirectory has no entry
Empty(d) == \A f \in Paths : Parent(f) = d => ~tree[f].exists

\* mkdir, rmdir (of an empty directory) or chmod of the subdirectory
SetDir(mode) ==
  /\ edits < MaxEdits
  /\ sub # mode
  /\ mode \in {"read", "search", "closed"} => sub # "absent"
  /\ mode = "absent" => Empty(Sub)
  /\ sub' = mode
  /\ edits' = edits + 1
  /\ builds' = 0
  /\ changed' = Touched
  /\ UNCHANGED <<tree, db, writer, pc, txn, todo, scan, indexed, warned, before, asked,
                 seen, mid, out>>

(***************************************************************************)
(* glob("**/*.md"): a generator; each scandir happens when the loop asks   *)
(* for the next path                                                       *)
(***************************************************************************)
\* the glob pattern is *.md
NotRecursive == FALSE

\* the glob pattern starts with **/
Recursive == TRUE

\* the directory the scandir number n (of 4) is of: the memory directory for
\* its entries, again for its subdirectories, then the same of s
DirAt(n) == IF n <= 2 THEN Top ELSE Sub

\* the scandirs 1 and 3 read the entries *.md, 2 and 4 the subdirectories
ForEntries(n) == n \in {1, 3}

\* scandir(d) raises FileNotFoundError, which glob lets through
Raises(n) == ModeOf(DirAt(n)) = "absent"

\* the paths the scandir number n yields; PermissionError is swallowed
Yield(n) ==
  IF ForEntries(n) /\ CanList(DirAt(n)) THEN Listing(tree, DirAt(n)) ELSE {}

\* the scandir that follows the scandir number n: the subdirectories found
\* in the memory directory are scanned, s has none
After(n) ==
  IF n = 2 THEN (IF Recursive /\ sub # "absent" THEN 3 ELSE 5) ELSE n + 1

(***************************************************************************)
(* index_memory_files                                                      *)
(***************************************************************************)
\* sqlite3.connect() without isolation_level: the module opens a transaction
\* before the first DELETE/INSERT and keeps it open until commit()
IsolationNone == "none"

IsolationLevel == "deferred"

Transactional == IsolationLevel # "none"

\* DELETE FROM memory_fts skipped
NotCleared(rows) == rows

\* DELETE FROM memory_fts
Cleared(rows) == EmptyBag

\* lines 52-54 with the DELETE committed on its own
DeleteAllCommitted(p) ==
  /\ pc[p] = "idle"
  /\ writer = NoProc
  /\ pc' = [pc EXCEPT ![p] = "loop"]
  /\ before' = [before EXCEPT ![p] = db]
  /\ todo' = [todo EXCEPT ![p] = {}]
  /\ scan' = [scan EXCEPT ![p] = 1]
  /\ indexed' = [indexed EXCEPT ![p] = 0]
  /\ warned' = [warned EXCEPT ![p] = 0]
  /\ changed' = [changed EXCEPT ![p] = FALSE]
  /\ writer' = p
  /\ txn' = [txn EXCEPT ![p] = Cleared(db)]
  /\ db' = Cleared(db)
  /\ UNCHANGED <<tree, sub, edits, asked, seen, mid, builds, out>>

\* lines 52-54: connect, DELETE (which takes the write lock), indexed = 0;
\* the glob of line 55 has listed nothing yet
DeleteAll(p) ==
  /\ pc[p] = "idle"
  /\ writer = NoProc
  /\ pc' = [pc EXCEPT ![p] = "loop"]
  /\ before' = [before EXCEPT ![p] = db]
  /\ todo' = [todo EXCEPT ![p] = {}]
  /\ scan' = [scan EXCEPT ![p] = 1]
  /\ indexed' = [indexed EXCEPT ![p] = 0]
  /\ warned' = [warned EXCEPT ![p] = 0]
  /\ changed' = [changed EXCEPT ![p] = FALSE]
  /\ IF Transactional
     THEN /\ writer' = p
          /\ txn' = [txn EXCEPT ![p] = Cleared(db)]
          /\ db' = db
     ELSE /\ writer' = writer
          /\ txn' = txn
          /\ db' = Cleared(db)
  /\ UNCHANGED <<tree, sub, edits, asked, seen, mid, builds, out>>

\* line 53 when another connection holds the write lock past the busy
\* timeout: sqlite3.OperationalError ends the invocation
DeleteBusy(p) ==
  /\ pc[p] = "idle"
  /\ writer \notin {NoProc, p}
  /\ pc' = [pc EXCEPT ![p] = "failed"]
  /\ UNCHANGED <<tree, sub, edits, db, writer, txn, todo, scan, indexed, warned, before,
                 asked, seen, mid, builds, changed, out>>

\* line 55: the generator is asked for a path when the entries it listed
\* are used up, and does its next scandir. A directory that is gone raises
\* out of the for statement: no commit, nothing printed, the transaction is
\* rolled back when the process ends
ListDir(p) ==
  /\ pc[p] = "loop"
  /\ todo[p] = {}
  /\ scan[p] <= 4
  /\ IF Raises(scan[p])
     THEN /\ pc' = [pc EXCEPT ![p] = "raised"]
          /\ txn' = [txn EXCEPT ![p] = EmptyBag]
          /\ writer' = IF writer = p THEN NoProc ELSE writer
          /\ UNCHANGED <<todo, scan>>
     ELSE /\ todo' = [todo EXCEPT ![p] = Yield(scan[p])]
          /\ scan' = [scan EXCEPT ![p] = After(scan[p])]
          /\ UNCHANGED <<pc, txn, writer>>
  /\ UNCHANGED <<tree, sub, edits, db, indexed, warned, before, asked, seen, mid,
                 builds, changed, out>>

\* lines 66-67
Insert(p, row) ==
  IF Transactional
  THEN /\ txn' = [txn EXCEPT ![p] = @ (+) SetToBag({row})]
       /\ db' = db
  ELSE /\ txn' = txn
       /\ db' = db (+) SetToBag({row})

\* open(f) and read() return: the file is readable and its directory lets
\* the process in (a listed file can since have been removed or protected)
CanOpen(f) == tree[f].readable /\ CanEnter(Parent(f))

\* indexed += 1 on every file the loop visits
CountedUp(p, f) == indexed[p] + 1

\* line 68: indexed += 1 is reached only after the INSERT
Counted(p, f) == IF CanOpen(f) THEN indexed[p] + 1 ELSE indexed[p]

\* lines 56-70: one iteration of the loop, on an entry of the listing; the
\* file is opened now, whatever it was when the directory was listed
IndexFile(p, f) ==
  /\ pc[p] = "loop"
  /\ f \in todo[p]
  /\ todo' = [todo EXCEPT ![p] = @ \ {f}]
  /\ IF Hidden(f)
     THEN UNCHANGED <<db, txn, indexed, warned>>
     ELSE /\ indexed' = [indexed EXCEPT ![p] = Counted(p, f)]
          /\ IF CanOpen(f)
             THEN /\ Insert(p, Row(f, tree[f].content))
                  /\ warned' = warned
             ELSE /\ warned' = [warned EXCEPT ![p] = @ + 1]
                  /\ UNCHANGED <<db, txn>>
  /\ UNCHANGED <<tree, sub, edits, writer, pc, scan, before, asked, seen, mid, builds,
                 changed, out>>

\* a SELECT of another connection has rows pending: sqlite keeps its read
\* lock until the cursor is read to its end
Reading(p) == \E q \in Procs \ {p} : pc[q] = "searching" /\ seen[q] # EmptyBag

\* the glob of line 55 is exhausted
GlobDone(p) == todo[p] = {} /\ scan[p] = 5

\* line 71: conn.commit()
Commit(p) ==
  /\ pc[p] = "loop"
  /\ GlobDone(p)
  /\ ~(Transactional /\ Reading(p))
  /\ pc' = [pc EXCEPT ![p] = "done"]
  /\ builds' = IF ~changed[p] /\ builds < 2 THEN builds + 1 ELSE builds
  /\ IF Transactional
     THEN /\ db' = txn[p]
          /\ writer' = NoProc
     ELSE UNCHANGED <<db, writer>>
  /\ UNCHANGED <<tree, sub, edits, txn, todo, scan, indexed, warned, before, asked, seen,
                 mid, changed, out>>

\* line 71 when a reader keeps its lock past the busy timeout: the error
\* leaves index_memory_files and the transaction is rolled back
CommitBusy(p) ==
  /\ pc[p] = "loop"
  /\ GlobDone(p)
  /\ Transactional /\ Reading(p)
  /\ pc' = [pc EXCEPT ![p] = "failed"]
  /\ txn' = [txn EXCEPT ![p] = EmptyBag]
  /\ writer' = NoProc
  /\ UNCHANGED <<tree, sub, edits, db, todo, scan, indexed, warned, before, asked, seen,
                 mid, builds, changed, out>>

\* lines 72-73: close, print the count, return (the locals are gone)
Report(p) ==
  /\ pc[p] = "done"
  /\ pc' = [pc EXCEPT ![p] = "idle"]
  /\ txn' = [txn EXCEPT ![p] = EmptyBag]
  /\ scan' = [scan EXCEPT ![p] = 1]
  /\ indexed' = [indexed EXCEPT ![p] = 0]
  /\ warned' = [warned EXCEPT ![p] = 0]
  /\ before' = [before EXCEPT ![p] = EmptyBag]
  /\ changed' = [changed EXCEPT ![p] = FALSE]
  /\ UNCHANGED <<tree, sub, edits, db, writer, todo, asked, seen, mid, builds, out>>

\* the process dies between line 53 and line 71: what it did not commit is
\* rolled back
Crash(p) ==
  /\ pc[p] = "loop"
  /\ pc' = [pc EXCEPT ![p] = "crashed"]
  /\ txn' = [txn EXCEPT ![p] = EmptyBag]
  /\ writer' = IF writer = p THEN NoProc ELSE writer
  /\ UNCHANGED <<tree, sub, edits, db, todo, scan, indexed, warned, before, asked, seen,
                 mid, builds, changed, out>>

\* the tool is invoked again
Restart(p) ==
  /\ pc[p] \in {"crashed", "failed", "raised"}
  /\ pc' = [pc EXCEPT ![p] = "idle"]
  /\ todo' = [todo EXCEPT ![p] = {}]
  /\ scan' = [scan EXCEPT ![p] = 1]
  /\ indexed' = [indexed EXCEPT ![p] = 0]
  /\ warned' = [warned EXCEPT ![p] = 0]
  /\ before' = [before EXCEPT ![p] = EmptyBag]
  /\ changed' = [changed EXCEPT ![p] = FALSE]
  /\ UNCHANGED <<tree, sub, edits, db, writer, txn, asked, seen, mid, builds, out>>

(***************************************************************************)
(* search                                                                  *)
(***************************************************************************)
\* the characters of an FTS5 bareword
BarewordChars == Letters \cup Digits \cup {"_"} \cup NonAscii

\* the characters of a token of the unicode61 tokenizer
TokenChars == Letters \cup Digits \cup NonAscii

\* unicode61 removes diacritics
Fold(c) == IF c = "é" THEN "e" ELSE c

\* the tokens of a text from position i on, cur being the token begun
RECURSIVE TokensFrom(_, _, _)
TokensFrom(text, i, cur) ==
  LET done == IF cur = <<>> THEN <<>> ELSE <<cur>>
  IN  IF i > Len(text) THEN done
      ELSE IF text[i] \in TokenChars
           THEN TokensFrom(text, i + 1, Append(cur, Fold(text[i])))
           ELSE done \o TokensFrom(text, i + 1, <<>>)

Tokens(text) == TokensFrom(text, 1, <<>>)

\* the words of a query from position i on: it is split at whitespace
RECURSIVE WordsFrom(_, _, _)
WordsFrom(q, i, cur) ==
  LET done == IF cur = <<>> THEN <<>> ELSE <<cur>>
  IN  IF i > Len(q) THEN done
      ELSE IF q[i] \notin Whitespace
           THEN WordsFrom(q, i + 1, Append(cur, q[i]))
           ELSE done \o WordsFrom(q, i + 1, <<>>)

Words(q) == WordsFrom(q, 1, <<>>)

\* FTS5 rejects the query (fts5: syntax error, no such column): it has no
\* word, or a word that is not a bareword
Rejected(q) ==
  \/ Words(q) = <<>>
  \/ \E i \in 1..Len(Words(q)) : \E j \in 1..Len(Words(q)[i]) :
       Words(q)[i][j] \notin BarewordChars

\* the tokens of the phrase occur side by side in the text
HasPhrase(text, phrase) ==
  /\ phrase # <<>>
  /\ \E i \in 1..(Len(Tokens(text)) - Len(phrase) + 1) :
       SubSeq(Tokens(text), i, i + Len(phrase) - 1) = phrase

\* memory_fts MATCH q: every word of q, as a phrase, is in some column; a
\* word without a token (of underscores) is left out, and a query of such
\* words matches nothing
Match(row, q) ==
  LET said == {i \in 1..Len(Words(q)) : Tokens(Words(q)[i]) # <<>>}
  IN  /\ said # {}
      /\ \A i \in said :
           \E col \in {"file_path", "content", "date_created", "tags", "summary"} :
             HasPhrase(row[col], Tokens(Words(q)[i]))

\* the rows the SELECT returns: LIMIT is at least their number
Hits(rows, q) ==
  [r \in {x \in BagToSet(rows) : Match(x, q)} |-> CopiesIn(r, rows)]

\* the queries of search: a tag word, a word of no document, and a tag
\* with its '#'
Queries == { <<"x">>, <<"z", "z", "z">>, <<"#", "x">> }

\* the rebuild of w has changed pages of the store (its DELETE found
\* rows, or it has inserted rows): enough of them spill its page cache and
\* it then holds the exclusive lock
Dirty(w) == before[w] # EmptyBag \/ txn[w] # EmptyBag

\* line 44 (via lines 108 and 40) when a writer holds the exclusive lock
\* past the busy timeout: sqlite3.OperationalError ends the invocation,
\* whatever its command (search, timeline, get, index)
InitBusy(p) ==
  /\ pc[p] = "idle"
  /\ writer \notin {NoProc, p}
  /\ Dirty(writer)
  /\ pc' = [pc EXCEPT ![p] = "failed"]
  /\ UNCHANGED <<tree, sub, edits, db, writer, txn, todo, scan, indexed, warned, before,
                 asked, seen, mid, builds, changed, out>>

\* lines 76-82: the statement runs on the committed rows (a writer that
\* has not committed holds a lock that does not exclude readers, as long
\* as its changes fit its page cache)
SearchOpen(p, q) ==
  /\ pc[p] = "idle"
  /\ ~Rejected(q)
  /\ pc' = [pc EXCEPT ![p] = "searching"]
  /\ asked' = [asked EXCEPT ![p] = q]
  /\ seen' = [seen EXCEPT ![p] = Hits(db, q)]
  /\ mid' = [mid EXCEPT ![p] = [w \in {x \in Procs : pc[x] = "loop"} |-> before[w]]]
  /\ changed' = [changed EXCEPT ![p] = FALSE]
  /\ UNCHANGED <<tree, sub, edits, db, writer, txn, todo, scan, indexed, warned, before,
                 builds, out>>

\* lines 78-82: sqlite3.OperationalError on a query FTS5 rejects
SearchSyntax(p, q) ==
  /\ pc[p] = "idle"
  /\ Rejected(q)
  /\ pc' = [pc EXCEPT ![p] = "failed"]
  /\ UNCHANGED <<tree, sub, edits, db, writer, txn, todo, scan, indexed, warned, before,
                 asked, seen, mid, builds, changed, out>>

\* lines 83-87: the cursor is read to its end and the connection closed
SearchClose(p) ==
  /\ pc[p] = "searching"
  /\ pc' = [pc EXCEPT ![p] = "idle"]
  /\ asked' = [asked EXCEPT ![p] = <<>>]
  /\ seen' = [seen EXCEPT ![p] = EmptyBag]
  /\ mid' = [mid EXCEPT ![p] = NoRebuild]
  /\ changed' = [changed EXCEPT ![p] = FALSE]
  /\ UNCHANGED <<tree, sub, edits, db, writer, txn, todo, scan, indexed, warned, before,
                 builds, out>>

(***************************************************************************)
(* timeline                                                                *)
(***************************************************************************)
\* a < b for lists of str, as sorted() compares the parts of two paths
RECURSIVE PartsLess(_, _)
PartsLess(a, b) ==
  IF b = <<>> THEN FALSE
  ELSE IF a = <<>> THEN TRUE
  ELSE IF a[1] # b[1] THEN StrLess(a[1], b[1])
  ELSE PartsLess(Tail(a), Tail(b))

\* sorted(...) of the paths glob yielded
RECURSIVE SortPaths(_)
SortPaths(S) ==
  IF S = {} THEN <<>>
  ELSE LET m == CHOOSE x \in S : \A y \in S \ {x} : PartsLess(x, y)
       IN  <<m>> \o SortPaths(S \ {m})

\* line 93: {'file': md.name, 'date': m.group(1), 'path': str(md)}
Entry(f) == [file |-> Name(f), date |-> ExtractDate(Name(f)), path |-> PathStr(f)]

\* every file is appended
ListedAlways(f) == TRUE

\* line 93: if m
Listed(f) == HasDate(Name(f))

\* lines 91-93: the loop over the sorted paths
RECURSIVE Entries(_)
Entries(fs) ==
  IF fs = <<>> THEN <<>>
  ELSE (IF Listed(fs[1]) THEN <<Entry(fs[1])>> ELSE <<>>) \o Entries(Tail(fs))

\* timeline() is called; sorted() starts to draw from the glob
TimelineStart ==
  /\ out = NoOut
  /\ out' = [op |-> "listing", found |-> {}, scan |-> 1]
  /\ changed' = [changed EXCEPT ![Caller] = FALSE]
  /\ UNCHANGED <<tree, sub, edits, db, writer, pc, txn, todo, scan, indexed, warned,
                 before, asked, seen, mid, builds>>

\* line 91: the next scandir of the glob; a directory that is gone raises
\* FileNotFoundError out of timeline()
TimelineList ==
  /\ out.op = "listing"
  /\ out.scan <= 4
  /\ out' = IF Raises(out.scan)
            THEN [op |-> "timeline", raised |-> TRUE, value |-> <<>>]
            ELSE [out EXCEPT !.found = @ \cup Yield(out.scan),
                             !.scan = After(out.scan)]
  /\ UNCHANGED <<tree, sub, edits, db, writer, pc, txn, todo, scan, indexed, warned,
                 before, asked, seen, mid, builds, changed>>

\* lines 91-94: the glob is exhausted; sort, filter, return
TimelineEnd ==
  /\ out.op = "listing"
  /\ out.scan = 5
  /\ out' = [op |-> "timeline", raised |-> FALSE,
             value |-> Entries(SortPaths(out.found))]
  /\ UNCHANGED <<tree, sub, edits, db, writer, pc, txn, todo, scan, indexed, warned,
                 before, asked, seen, mid, builds, changed>>

(***************************************************************************)
(* get_content                                                             *)
(***************************************************************************)
\* paths in one call of get_content
MaxBatch == 2

\* the encodings open(p) of line 97 decodes with, one per invocation: that
\* of its locale (UTF-8, or ASCII in the C locale without UTF-8 mode)
Locales == {"utf-8", "ascii"}

\* Path(p).name
Basename(s) == LET parts == SplitOn(s, "/") IN parts[Len(parts)]

\* the path of the model the string s names
PathAt(s) == CHOOSE f \in Paths : PathStr(f) = s

\* open(p).read() returns, decoding with the encoding enc
Opens(s, enc) ==
  /\ \E f \in Paths : PathStr(f) = s
  /\ tree[PathAt(s)].exists
  /\ CanOpen(PathAt(s))
  /\ enc = "ascii" =>
       \A i \in 1..Len(tree[PathAt(s)].content) : tree[PathAt(s)].content[i] \notin NonAscii

\* the dict with the entry key: text added; an entry of the same key is
\* replaced
Put(dict, key, text) ==
  [k \in DOMAIN dict \cup {key} |-> IF k = key THEN text ELSE dict[k]]

\* the batches get_content is called with
Batches == UNION {[1..n -> {PathStr(f) : f \in Paths}] : n \in 1..MaxBatch}

\* get_content(paths) is called
GetStart(batch, enc) ==
  /\ out = NoOut
  /\ out' = [op |-> "reading", batch |-> batch, enc |-> enc, at |-> 1, value |-> <<>>]
  /\ changed' = [changed EXCEPT ![Caller] = FALSE]
  /\ UNCHANGED <<tree, sub, edits, db, writer, pc, txn, todo, scan, indexed, warned,
                 before, asked, seen, mid, builds>>

\* line 97: the comprehension opens and reads the next path; an open() or
\* read() that fails raises out of get_content and the dict is lost
GetRead ==
  /\ out.op = "reading"
  /\ out.at <= Len(out.batch)
  /\ out' = IF Opens(out.batch[out.at], out.enc)
            THEN [out EXCEPT !.value = Put(@, Basename(out.batch[out.at]),
                                           tree[PathAt(out.batch[out.at])].content),
                             !.at = @ + 1]
            ELSE [op |-> "get", batch |-> out.batch, enc |-> out.enc, raised |-> TRUE,
                  error |-> out.batch[out.at], value |-> <<>>]
  /\ UNCHANGED <<tree, sub, edits, db, writer, pc, txn, todo, scan, indexed, warned,
                 before, asked, seen, mid, builds, changed>>

\* line 97: the comprehension is complete; return the dict
GetEnd ==
  /\ out.op = "reading"
  /\ out.at > Len(out.batch)
  /\ out' = [op |-> "get", batch |-> out.batch, enc |-> out.enc, raised |-> FALSE,
             error |-> <<>>, value |-> out.value]
  /\ UNCHANGED <<tree, sub, edits, db, writer, pc, txn, todo, scan, indexed, warned,
                 before, asked, seen, mid, builds, changed>>

\* main prints the value (or the traceback) and the process ends
Return ==
  /\ out.op \in {"timeline", "get"}
  /\ out' = NoOut
  /\ changed' = [changed EXCEPT ![Caller] = FALSE]
  /\ UNCHANGED <<tree, sub, edits, db, writer, pc, txn, todo, scan, indexed, warned,
                 before, asked, seen, mid, builds>>

(***************************************************************************)
(* Specifications                                                          *)
(***************************************************************************)
\* index and search by two processes on a changing tree
Next ==
  \/ \E f \in Paths, c \in Contents : WriteFile(f, c)
  \/ \E f \in Paths : RemoveFile(f)
  \/ \E f \in Paths : DamageFile(f)
  \/ \E mode \in Modes : SetDir(mode)
  \/ \E p \in Procs : DeleteAll(p)
  \/ \E p \in Procs : DeleteBusy(p)
  \/ \E p \in Procs : ListDir(p)
  \/ \E p \in Procs, f \in Paths : IndexFile(p, f)
  \/ \E p \in Procs : Commit(p)
  \/ \E p \in Procs : CommitBusy(p)
  \/ \E p \in Procs : Report(p)
  \/ \E p \in Procs : Crash(p)
  \/ \E p \in Procs : Restart(p)
  \/ \E p \in Procs : InitBusy(p)
  \/ \E p \in Procs, q \in Queries : SearchOpen(p, q)
  \/ \E p \in Procs, q \in Queries : SearchSyntax(p, q)
  \/ \E p \in Procs : SearchClose(p)

Spec == Init /\ [][Next]_vars

\* timeline and get on a changing tree, no index involved
NextQuery ==
  \/ \E f \in Paths, c \in Contents : WriteFile(f, c)
  \/ \E f \in Paths : RemoveFile(f)
  \/ \E f \in Paths : DamageFile(f)
  \/ \E mode \in Modes : SetDir(mode)
  \/ TimelineStart
  \/ TimelineList
  \/ TimelineEnd
  \/ \E batch \in Batches, enc \in Locales : GetStart(batch, enc)
  \/ GetRead
  \/ GetEnd
  \/ Return

SpecQuery == Init /\ [][NextQuery]_vars

(***************************************************************************)
(* Vocabulary of the properties                                            *)
(***************************************************************************)
\* the *.md files below the root that a process can find: those of the
\* directories it can list
MdFiles == {f \in Paths : tree[f].exists /\ IsMd(Name(f)) /\ CanList(Parent(f))}

\* the candidate document files: those that are not hidden
Documents == {f \in MdFiles : ~Hidden(f)}

\* the candidates open() and read() succeed on
ReadableDocuments == {f \in Documents : CanOpen(f)}

\* number of rows of B whose file_path is s
PathCount(B, s) ==
  LET at == {r \in BagToSet(B) : r.file_path = s}
  IN  BagCardinality([r \in at |-> CopiesIn(r, B)])

NoDuplicatePath(B) == \A r \in BagToSet(B) : PathCount(B, r.file_path) = 1

\* the rows a complete rebuild of the tree as it is leaves
RebuiltRows == SetToBag({Row(f, tree[f].content) : f \in ReadableDocuments})

\* a <= b for str
StrLeq(a, b) == a = b \/ StrLess(a, b)

\* number of times token x occurs in the sequence of tokens ts
Occurrences(ts, x) == Cardinality({i \in 1..Len(ts) : ts[i] = x})

\* the tree has not changed since the running call of x began
Stable(x) == ~changed[x]

(***************************************************************************)
(* Properties of the index (specification Spec)                            *)
(***************************************************************************)
\* C1 as claimed: when a rebuild has completed and the tree is as it was
\* throughout the rebuild, whatever the store held before, the store has
\* exactly one row for every document file of the tree that can be read,
\* under that file's path, and no row for any other path.
C1_RebuildEvery ==
  \A p \in Procs : (pc[p] = "done" /\ Stable(p)) =>
    /\ \A f \in Paths :
         (tree[f].exists /\ IsMd(Name(f)) /\ ~Hidden(f) /\ CanOpen(f)) =>
           PathCount(db, PathStr(f)) = 1
    /\ \A r \in BagToSet(db) :
         \E f \in Paths :
           /\ tree[f].exists /\ IsMd(Name(f)) /\ ~Hidden(f) /\ CanOpen(f)
           /\ r.file_path = PathStr(f)

\* C1 as amended: when a rebuild has completed and the tree is as it was
\* throughout the rebuild, whatever the store held before, the store has
\* exactly one row for every readable document file that the listing of
\* the directories reaches, under that file's path, and no row for any
\* other path.
C1_RebuildExact ==
  \A p \in Procs : (pc[p] = "done" /\ Stable(p)) =>
    /\ \A f \in ReadableDocuments : PathCount(db, PathStr(f)) = 1
    /\ \A r \in BagToSet(db) :
         \E f \in ReadableDocuments : r.file_path = PathStr(f)

\* a rebuild of an unchanging tree completed on a store that held other
\* rows, and left rows for a file of the root and a file of a subdirectory
C1_Witness ==
  \E p \in Procs :
    /\ pc[p] = "done"
    /\ Stable(p)
    /\ before[p] # EmptyBag
    /\ before[p] # db
    /\ \E f, g \in ReadableDocuments : Len(f) = 1 /\ Len(g) > 1

\* C2: a search that runs while another process is between the DELETE and
\* the commit of its rebuild returns no path twice, and returns what its
\* query matches in the whole set of rows of before the rebuild (none
\* missing, none of the new set mixed in).
C2_SearchSeesWholeSet ==
  \A r \in Procs : pc[r] = "searching" =>
    \A w \in DOMAIN mid[r] :
      /\ NoDuplicatePath(seen[r])
      /\ seen[r] = Hits(mid[r][w], asked[r])

\* a search returned rows while a rebuild had cleared its view and
\* inserted rows in which the query matches something else
C2_Witness ==
  \E r \in Procs : \E w \in DOMAIN mid[r] :
    /\ pc[r] = "searching"
    /\ pc[w] = "loop"
    /\ seen[r] # EmptyBag
    /\ txn[w] # EmptyBag
    /\ Hits(txn[w], asked[r]) # seen[r]

\* C3: with unreadable candidates, a rebuild fails only on the database's
\* lock, at its start or at the commit, never inside the loop (the glob
\* raises only when the subdirectory was removed during the rebuild); the
\* count it reports is the number of rows it inserted; and when the tree is
\* as it was throughout the rebuild every readable candidate has a row, no
\* unreadable candidate has one, and there is one warning for each
\* unreadable candidate.
C3_PartialFailure ==
  \A p \in Procs :
    /\ pc[p] = "failed" => (todo[p] = {} /\ scan[p] \in {1, 5})
    /\ pc[p] = "raised" => changed[p]
    /\ pc[p] = "done" => indexed[p] = BagCardinality(txn[p])
    /\ (pc[p] = "done" /\ Stable(p)) =>
         /\ \A f \in Documents :
              IF CanOpen(f) THEN PathCount(db, PathStr(f)) >= 1
                                  ELSE PathCount(db, PathStr(f)) = 0
         /\ warned[p] = Cardinality(Documents \ ReadableDocuments)

\* a rebuild of an unchanging tree completed that met an unreadable file
\* and a readable one
C3_Witness ==
  \E p \in Procs :
    /\ pc[p] = "done"
    /\ Stable(p)
    /\ warned[p] > 0
    /\ indexed[p] > 0
    /\ \E f \in Documents : ~CanOpen(f)

\* C7: a rebuild that saw no change of the tree and completes when a
\* rebuild has already been committed since the tree last changed leaves
\* the rows it found: same paths, and for each path the same content,
\* date_created, tags and summary.
C7_Idempotent ==
  [][\A p \in Procs :
       (pc[p] = "loop" /\ pc'[p] = "done" /\ Stable(p) /\ builds >= 1) => db' = db]_vars

\* the second rebuild of an unchanged tree with documents completed
C7_Witness ==
  \E p \in Procs :
    /\ pc[p] = "done"
    /\ Stable(p)
    /\ builds >= 2
    /\ before[p] = db
    /\ BagCardinality(db) >= 2

\* C8: in every stored row, a hashtag of the content occurs exactly once in
\* the space-separated tags field.
C8_TagsCollapsed ==
  \A r \in BagToSet(db) :
    \A i \in 1..Len(FindTags(r.content)) :
      Occurrences(SplitOn(r.tags, " "), FindTags(r.content)[i]) = 1

\* C9 as claimed: after a crash in a rebuild of an unchanging tree the
\* store holds no rows, or only rows of the new set.
C9_CrashLeavesPartial ==
  \A p \in Procs : (pc[p] = "crashed" /\ Stable(p)) => db \sqsubseteq RebuiltRows

\* C9 as amended: a crash between the DELETE and the commit leaves the store
\* with exactly the rows it held before the rebuild.
C9_CrashKeepsOld ==
  [][\A p \in Procs : (pc[p] = "loop" /\ pc'[p] = "crashed") => db' = before[p]]_vars

\* a rebuild of an unchanging tree crashed after it had inserted rows, and
\* the store still holds rows that are not of the new set
C9_Witness ==
  \E p \in Procs :
    /\ pc[p] = "crashed"
    /\ Stable(p)
    /\ db = before[p]
    /\ db # EmptyBag
    /\ ~(db \sqsubseteq RebuiltRows)

\* C10: when no process is inside a rebuild, the store has no path twice.
C10_NoAccumulation ==
  (\A p \in Procs : pc[p] # "loop") => NoDuplicatePath(db)

\* both processes completed a rebuild of the same unchanged tree with two
\* documents
C10_Witness ==
  /\ \A p \in Procs : pc[p] = "done" /\ Stable(p)
  /\ builds >= 2
  /\ BagCardinality(db) >= 2

(***************************************************************************)
(* Properties of get_content and timeline (specification SpecQuery)        *)
(***************************************************************************)
\* C4: when the files are as they were throughout the call, get_content
\* returns the content of every path of the batch that can be read,
\* whether or not another path of the batch fails.
C4_BatchKeepsOthers ==
  (out.op = "get" /\ Stable(Caller)) =>
    \A i \in 1..Len(out.batch) :
      Opens(out.batch[i], out.enc) =>
        /\ Basename(out.batch[i]) \in DOMAIN out.value
        /\ out.value[Basename(out.batch[i])] = tree[PathAt(out.batch[i])].content

\* C5 as claimed: when the tree is as it was throughout the call, the list
\* has an entry for every *.md file, with the date "unknown" for a name
\* without a date.
C5_ListsEveryFile ==
  (out.op = "timeline" /\ Stable(Caller)) =>
    \A f \in {g \in Paths : tree[g].exists /\ IsMd(Name(g))} :
      \E i \in 1..Len(out.value) :
        /\ out.value[i].path = PathStr(f)
        /\ ~HasDate(Name(f)) => out.value[i].date = Unknown

\* C5 as amended: no entry of the list has the date "unknown"; timeline
\* raises only when the tree changed during the call; and when the tree is
\* as it was throughout the call, timeline returns a list that has one
\* entry for every *.md file whose name holds a date and that the listing
\* of the directories reaches, and none for any other file.
C5_ListsDatedFiles ==
  out.op = "timeline" =>
    /\ \A i \in 1..Len(out.value) : out.value[i].date # Unknown
    /\ out.raised => changed[Caller]
    /\ Stable(Caller) =>
         /\ {out.value[i].path : i \in 1..Len(out.value)}
              = {PathStr(f) : f \in {g \in MdFiles : HasDate(Name(g))}}
         /\ Len(out.value) = Cardinality({g \in MdFiles : HasDate(Name(g))})

\* a list was returned for an unchanging tree with a dated file and an
\* undated one
C5_Witness ==
  /\ out.op = "timeline"
  /\ ~out.raised
  /\ Stable(Caller)
  /\ Len(out.value) >= 1
  /\ \E f \in MdFiles : ~HasDate(Name(f))

\* C6: the entries are in ascending order of date.
C6_AscendingDates ==
  out.op = "timeline" =>
    \A i \in 1..(Len(out.value) - 1) :
      StrLeq(out.value[i].date, out.value[i + 1].date)

====
